---- MODULE Spec2Model ----
(***************************************************************************)
(* Model of the report pipeline of "Spartan_PDF V1.py":                    *)
(* AuroraSolarReport.generate_design_report driving AuroraAPI (remote      *)
(* fetches, image download) and PDFGenerator (the append-only element      *)
(* list and its final generate()).                                         *)
(*                                                                         *)
(* A run is one call of generate_design_report.  JSON objects are          *)
(* functions from key strings to values (a missing key is a key outside    *)
(* the DOMAIN), JSON arrays are sequences.  Every remote answer is drawn    *)
(* from a small set when the call is made.                                 *)
(***************************************************************************)
EXTENDS Integers, Sequences, FiniteSets, TLC

VARIABLES
    pc,              \* position of the run inside generate_design_report
    result,          \* "running", "True", "False" (the return value), "raised"
    project_id,      \* argument project_id (PyNone when not supplied)
    logo_path,       \* AuroraSolarReport.logo_path (PyNone when not supplied)
    design_summary,  \* local design_summary
    design_pricing,  \* local design_pricing
    design_assets,   \* local design_assets
    project_data,    \* local project_data
    elements,        \* PDFGenerator.elements
    images_added,    \* local images_added
    layout_images,   \* local layout_images
    idx,             \* position of the for-loop over layout_images (1-based)
    attempt,         \* loop variable attempt of range(max_retries)
    calls,           \* how often each collaborator operation was invoked
    downloads,       \* download_image calls made for each entry of layout_images
    slept,           \* whether the latest iteration of the retry loop called time.sleep(2)
    returned,        \* what validate_credentials() and generate() returned
    canvas           \* a FooterCanvas: its page under way, self.pages, the document

vars == <<pc, result, project_id, logo_path, design_summary, design_pricing,
          design_assets, project_data, elements, images_added, layout_images,
          idx, attempt, calls, downloads, slept, returned, canvas>>

(***************************************************************************)
(* Bounds of the model.                                                    *)
(***************************************************************************)
MaxAssets == 2

\* showPage calls made on one canvas, drawing operations made on one page
MaxPages == 3

MaxDraws == 2

(***************************************************************************)
(* Python values.                                                          *)
(***************************************************************************)
PyNone == "<None>"

EMPTY == [k \in {} |-> 0]

NoneDict == [py_none |-> TRUE]

\* dict.get(k, def)
Get(d, k, def) == IF k \in DOMAIN d THEN d[k] ELSE def

\* truth value of a dict or None (None is false, an empty dict is false)
Truthy(d) == d # NoneDict /\ DOMAIN d # {}

\* truth value of d.get(k) when the value under k is a list
TruthyList(d, k) == k \in DOMAIN d /\ Len(d[k]) > 0

\* truth value of an optional string
TruthyStr(s) == s # PyNone /\ s # ""

max_retries == 3

(***************************************************************************)
(* Number formatting (the f-string format specs of the report tables).     *)
(***************************************************************************)
Pad2(n) == IF n < 10 THEN "0" \o ToString(n) ELSE ToString(n)

Pad3(n) == IF n < 10 THEN "00" \o ToString(n)
           ELSE IF n < 100 THEN "0" \o ToString(n) ELSE ToString(n)

\* "{:,}" on a non-negative integer
RECURSIVE Thousands(_)
Thousands(n) == IF n < 1000 THEN ToString(n)
                ELSE Thousands(n \div 1000) \o "," \o Pad3(n % 1000)

\* a / b rounded to the nearest integer (a >= 0, b > 0)
RoundDiv(a, b) == (2 * a + b) \div (2 * b)

\* "{:.2f}" on the value hundredths / 100
Fixed2(hundredths) ==
    LET magnitude == IF hundredths < 0 THEN 0 - hundredths ELSE hundredths
    IN  (IF hundredths < 0 THEN "-" ELSE "")
        \o ToString(magnitude \div 100) \o "." \o Pad2(magnitude % 100)

\* "${:,.2f}" on the value cents / 100
Money(cents) == "$" \o Thousands(cents \div 100) \o "." \o Pad2(cents % 100)

(***************************************************************************)
(* PDFGenerator: the element list and the methods that append to it.       *)
(***************************************************************************)
Block(kind, style, text, rows) ==
    [kind |-> kind, style |-> style, text |-> text, rows |-> rows]

Spacer == Block("Spacer", "", "", <<>>)

\* add_logo when Image(logo_path) loads; a load failure appends nothing
add_logo(els, path, loads) ==
    IF loads THEN els \o <<Block("Image", "logo", path, <<>>), Spacer>> ELSE els

add_title(els, text) ==
    els \o <<Block("Paragraph", "SpartanTitle", "<b>" \o text \o "</b>", <<>>), Spacer>>

add_header(els, text) ==
    els \o <<Block("Paragraph", "ReportHeader", text, <<>>), Spacer>>

add_paragraph(els, text) ==
    els \o <<Block("Paragraph", "CustomBody", text, <<>>), Spacer>>

add_table(els, data) ==
    els \o <<Block("Table", "", "", data), Spacer>>

\* download_image: the answer to the GET decides between None and the bytes
\*   "error"      the request raised or the status was an error  -> None
\*   "not_image"  the content type does not start with image/    -> None
\*   "image"      decodable image bytes                          -> bytes
\*   "corrupt"    image content type, bytes that do not decode   -> bytes
download_image(answer) == IF answer \in {"image", "corrupt"} THEN answer ELSE PyNone

\* add_image returns True exactly when the data is there and decodes
add_image_ok(image_data) == image_data # PyNone /\ image_data = "image"

add_image(els, image_data, url) ==
    IF add_image_ok(image_data)
    THEN els \o <<Block("Image", "design", url, <<>>), Spacer>>
    ELSE els

(***************************************************************************)
(* AuroraSolarReport.format_project_overview.                              *)
(***************************************************************************)
\* str.title() on the status and project-type strings of the model
Title(s) ==
    CASE s = "active" -> "Active"
      [] s = "residential" -> "Residential"
      [] s = "N/A" -> "N/A"
      [] OTHER -> s

\* datetime.fromisoformat(s.replace('Z', '+00:00')) succeeds on these strings
IsIsoDate(s) == s \in {"2024-03-05T12:00:00Z"}

\* strftime('%B %d, %Y') of the parsed date
LongDate(s) == CASE s = "2024-03-05T12:00:00Z" -> "March 05, 2024" [] OTHER -> s

\* the try/except around the date: a string that does not parse (the default
\* '' among them) falls back to project.get('created_at', 'N/A')
FormattedDate(project) ==
    IF IsIsoDate(Get(project, "created_at", ""))
    THEN LongDate(project.created_at)
    ELSE Get(project, "created_at", "N/A")

\* f"{first} {last}".strip() for names without surrounding blanks
CustomerName(first, last) ==
    IF first = "" THEN last
    ELSE IF last = "" THEN first ELSE first \o " " \o last

OverviewRows(project) ==
    LET address == Get(Get(project, "location", EMPTY), "property_address_components", EMPTY)
        customer_name == CustomerName(Get(project, "customer_first_name", ""),
                                      Get(project, "customer_last_name", ""))
    IN  << <<"Project Details", "Information">>,
           <<"Project Name", Get(project, "name", "N/A")>>,
           <<"Customer Name", IF customer_name # "" THEN customer_name ELSE "N/A">>,
           <<"Street Address", Get(address, "street_address", "N/A")>>,
           <<"City", Get(address, "city", "N/A")>>,
           <<"State", Get(address, "region", "N/A")>>,
           <<"ZIP Code", Get(address, "postal_code", "N/A")>>,
           <<"Created Date", FormattedDate(project)>>,
           <<"Status", Title(Get(project, "status", "N/A"))>>,
           <<"Property Type", Title(Get(project, "project_type", "N/A"))>> >>

\* whether format_project_overview returns None
OverviewIsNone(data) == ~Truthy(data) \/ "project" \notin DOMAIN data

\* the rows format_project_overview returns (<<>> stands for None)
format_project_overview(data) ==
    IF OverviewIsNone(data) THEN <<>> ELSE OverviewRows(data.project)

(***************************************************************************)
(* The design-metrics mapping of generate_design_report (lines 405-422).   *)
(***************************************************************************)
BomOf(summary) == Get(Get(summary, "design", EMPTY), "bill_of_materials", <<>>)

\* item['component_type'] raises KeyError on an entry without that key
MaterialsRaises(bom) == \E i \in 1..Len(bom) : "component_type" \notin DOMAIN bom[i]

\* {item['component_type']: item for item in bom}: a later entry wins
Materials(bom) ==
    [t \in {bom[i].component_type : i \in 1..Len(bom)} |->
        bom[CHOOSE i \in 1..Len(bom) :
                /\ bom[i].component_type = t
                /\ \A j \in (i+1)..Len(bom) : bom[j].component_type # t]]

ArraysOf(summary) == Get(Get(summary, "design", EMPTY), "arrays", <<EMPTY>>)

\* arrays[0] raises IndexError on an empty list
ArraysRaises(arrays) == Len(arrays) = 0

\* design_info.get('system_size_stc', 0), in watts; system_size is this / 1000
SystemSizeWatts(summary) == Get(Get(summary, "design", EMPTY), "system_size_stc", 0)

\* faulty variant of DesignMappingRaises: design_summary['design'] instead of .get('design', {})
DesignMappingRaisesStrict(summary) ==
    \/ "design" \notin DOMAIN summary
    \/ MaterialsRaises(BomOf(summary))
    \/ ArraysRaises(ArraysOf(summary))

DesignMappingRaises(summary) ==
    MaterialsRaises(BomOf(summary)) \/ ArraysRaises(ArraysOf(summary))

DesignRows(summary) ==
    LET design_info == Get(summary, "design", EMPTY)
        materials == Materials(BomOf(summary))
        modules == Get(materials, "modules", EMPTY)
        inverters == Get(materials, "microinverters", EMPTY)
        watts == SystemSizeWatts(summary)
        annual_production == Get(Get(design_info, "energy_production", EMPTY), "annual", 0)
        solar_access ==
            Get(Get(Get(ArraysOf(summary)[1], "shading", EMPTY), "solar_access", EMPTY),
                "annual", 0)
    IN  << <<"Metric", "Value">>,
           <<"System Size", Fixed2(RoundDiv(watts, 10)) \o " kW">>,
           <<"Annual Production", Thousands(annual_production) \o " kWh">>,
           <<"Number of Panels",
             IF "quantity" \in DOMAIN modules THEN ToString(modules.quantity) ELSE "N/A">>,
           <<"Panel Model", Get(modules, "name", "N/A")>>,
           <<"Inverter Model", Get(inverters, "name", "N/A")>>,
           <<"Solar Access",
             IF solar_access # 0 THEN ToString(solar_access) \o ".0%" ELSE "N/A">> >>

(***************************************************************************)
(* The financial mapping of generate_design_report (lines 428-435).        *)
(***************************************************************************)
\* faulty variant of DividesByWatts: >= where the code has >
DividesByWattsOrZero(watts) == watts >= 0

\* line 432: the condition system_size > 0 (system_size is watts / 1000)
DividesByWatts(watts) == watts > 0

\* price / (system_size * 1000) raises ZeroDivisionError on a divisor of 0
FinancialRaises(pricing, watts) == Truthy(pricing) /\ DividesByWatts(watts) /\ watts = 0

\* the "Price per Watt" cell: price / (system_size * 1000) when system_size > 0
PricePerWatt(price, watts) ==
    IF DividesByWatts(watts) THEN Money(RoundDiv(price * 100, watts)) \o "/W" ELSE "N/A"

FinancialRows(pricing, watts) ==
    LET price == Get(pricing, "system_price", 0)
    IN  << <<"Item", "Amount">>,
           <<"System Price", Money(price * 100)>>,
           <<"Price per Watt", PricePerWatt(price, watts)>>,
           <<"Federal Tax Credit", Money(price * 30)>>,
           <<"Net System Cost", Money(price * 70)>> >>

(***************************************************************************)
(* AuroraAPI: what each operation makes of the answer to its request.      *)
(***************************************************************************)
CredentialAnswers == {"200", "401", "403", "404", "500", "exception"}

\* 401, 403 and 404 return False; raise_for_status and any exception are
\* caught and return False
validate_credentials(answer) == answer = "200"

Answer(status, json, data) == [status |-> status, json |-> json, data |-> data]

\* the answers that _make_request turns into the empty dict
FailedAnswers ==
    { Answer(st, "object", EMPTY) : st \in {"http_error", "invalid_json", "request_exception"} }

_make_request(answer) == IF answer.status = "ok" THEN answer.data ELSE EMPTY

\* get_design_pricing calls data.get on the answer: a JSON array there raises
PricingRaises(answer) == answer.status = "ok" /\ answer.json = "array"

get_design_pricing(answer) == Get(_make_request(answer), "pricing", EMPTY)

(***************************************************************************)
(* The payloads the remote service answers with.                           *)
(***************************************************************************)
SummaryFull ==
    [design |->
        [system_size_stc |-> 6000,
         energy_production |-> [annual |-> 8500],
         bill_of_materials |->
            << [component_type |-> "modules", name |-> "SP-400", quantity |-> 15],
               [component_type |-> "microinverters", name |-> "IQ8"] >>,
         arrays |-> << [shading |-> [solar_access |-> [annual |-> 95]]] >>]]

\* a non-empty summary without the "design" key: every lookup takes its default
SummaryNoDesign == [id |-> "d1"]

\* a system size of 0, a bill-of-materials entry without name and quantity, an
\* array without shading
SummarySparse ==
    [design |-> [system_size_stc |-> 0,
                 bill_of_materials |-> << [component_type |-> "modules"] >>,
                 arrays |-> << EMPTY >>]]

\* a system size below zero
SummaryNegativeSize == [design |-> [system_size_stc |-> 0 - 500]]

SummaryEmptyArrays == [design |-> [system_size_stc |-> 6000, arrays |-> << >>]]

SummaryBomNoType ==
    [design |-> [system_size_stc |-> 6000,
                 bill_of_materials |-> << [name |-> "SP-400", quantity |-> 15] >>]]

SummaryPayloads ==
    {EMPTY, SummaryFull, SummaryNoDesign, SummarySparse, SummaryNegativeSize,
     SummaryEmptyArrays, SummaryBomNoType}

SummaryAnswers == { Answer("ok", "object", d) : d \in SummaryPayloads } \cup FailedAnswers

PricingAnswers ==
    { Answer("ok", "object", d) :
        d \in {EMPTY, [pricing |-> [system_price |-> 1000]], [pricing |-> [currency |-> "USD"]]} }
    \cup { Answer("ok", "array", EMPTY) } \cup FailedAnswers

ProjectFull ==
    [name |-> "Roof A", customer_first_name |-> "Ada", customer_last_name |-> "Doe",
     location |-> [property_address_components |->
                     [street_address |-> "1 Main St", city |-> "Troy",
                      region |-> "MI", postal_code |-> "48083"]],
     created_at |-> "2024-03-05T12:00:00Z", status |-> "active",
     project_type |-> "residential"]

\* no status, no project type, a creation date that does not parse
ProjectSparse == [name |-> "Roof B", customer_last_name |-> "Doe", created_at |-> "last week"]

ProjectPayloads ==
    {EMPTY, [message |-> "not found"], [project |-> EMPTY],
     [project |-> ProjectFull], [project |-> ProjectSparse]}

ProjectAnswers == { Answer("ok", "object", d) : d \in ProjectPayloads } \cup FailedAnswers

Url(i) == "https://img/" \o ToString(i)

AssetKinds == {"layout", "cad", "no_url", "other"}

\* the asset descriptor of a kind at position i of the list
Asset(kind, i) ==
    CASE kind = "layout" -> [type |-> "layout_image", url |-> Url(i)]
      [] kind = "cad" -> [asset_type |-> "CAD Screenshot", url |-> Url(i)]
      [] kind = "no_url" -> [type |-> "layout_image"]
      [] OTHER -> [type |-> "thumbnail", url |-> Url(i)]

AssetLists ==
    { [i \in DOMAIN kinds |-> Asset(kinds[i], i)] :
        kinds \in UNION { [1..n -> AssetKinds] : n \in 0..MaxAssets } }

AssetsAnswers ==
    { Answer("ok", "object", [assets |-> list]) : list \in AssetLists }
    \cup { Answer("ok", "object", [message |-> "not found"]) } \cup FailedAnswers

DownloadAnswers == {"error", "not_image", "image", "corrupt"}

(***************************************************************************)
(* FooterCanvas (lines 162-187).  The canvas is a record:                  *)
(*   code        the drawing operations of the page under way (_code)      *)
(*   pageNumber  _pageNumber                                               *)
(*   pages       self.pages, the page states kept by showPage              *)
(*   doc         the pages handed to the document, in order                *)
(*   saved       the document was written                                  *)
(*   shown       the showPage calls made on the canvas from outside        *)
(* Of canvas.Canvas the model has what FooterCanvas calls: _startPage      *)
(* begins an empty page with the next page number, Canvas.showPage hands   *)
(* the page under way to the document and starts a page, Canvas.save runs  *)
(* self.showPage() when the page under way has data and writes the file.   *)
(***************************************************************************)
\* lines 163-165
NewCanvas ==
    [code |-> << >>, pageNumber |-> 1, pages |-> << >>, doc |-> << >>,
     saved |-> FALSE, shown |-> 0]

\* self._startPage() of line 169
startPage(c) == [c EXCEPT !.pageNumber = @ + 1, !.code = << >>]

\* lines 167-169: the page is kept, not handed to the document
showPage(c) ==
    startPage([c EXCEPT !.pages = Append(@, [code |-> c.code, pageNumber |-> c.pageNumber])])

\* canvas.Canvas.showPage(self) of line 176
CanvasShowPage(c) == startPage([c EXCEPT !.doc = Append(@, c.code)])

\* canvas.Canvas.save(self) of line 177; its self.showPage() is the override
CanvasSave(c) ==
    [(IF Len(c.code) > 0 THEN showPage(c) ELSE c) EXCEPT !.saved = TRUE]

\* faulty variant of page_info: the two numbers change places
page_info_swapped(page_num, page_count) ==
    "Page " \o ToString(page_count) \o " of " \o ToString(page_num)

\* line 182
page_info(page_num, page_count) ==
    "Page " \o ToString(page_num) \o " of " \o ToString(page_count)

\* the left-hand footer string of line 185; the time is whatever now() gives
BrandLine == " SPARTAN HOME SERVICES " \o "<now>"

\* lines 179-187: two drawString calls on the page under way
draw_footer(c, page_num, page_count) ==
    [c EXCEPT !.code = @ \o <<BrandLine, page_info(page_num, page_count)>>]

\* line 174: self.__dict__.update(page)
RestorePage(c, page) == [c EXCEPT !.code = page.code, !.pageNumber = page.pageNumber]

\* lines 173-176, from the page_num-th kept page on
RECURSIVE StampPages(_, _, _)
StampPages(c, page_num, page_count) ==
    IF page_num > Len(c.pages) THEN c
    ELSE StampPages(
            CanvasShowPage(draw_footer(RestorePage(c, c.pages[page_num]), page_num, page_count)),
            page_num + 1, page_count)

\* lines 171-177
save(c) == CanvasSave(StampPages(c, 1, Len(c.pages)))

\* something is drawn on the page under way (the layout of doc.build)
Draw ==
    /\ ~canvas.saved
    /\ Len(canvas.code) < MaxDraws
    /\ canvas' = [canvas EXCEPT !.code = Append(@, "content")]
    /\ UNCHANGED <<pc, result, project_id, logo_path, design_summary, design_pricing,
                   design_assets, project_data, elements, images_added, layout_images,
                   idx, attempt, calls, downloads, slept, returned>>

ShowPage ==
    /\ ~canvas.saved
    /\ canvas.shown < MaxPages
    /\ canvas' = [showPage(canvas) EXCEPT !.shown = @ + 1]
    /\ UNCHANGED <<pc, result, project_id, logo_path, design_summary, design_pricing,
                   design_assets, project_data, elements, images_added, layout_images,
                   idx, attempt, calls, downloads, slept, returned>>

Save ==
    /\ ~canvas.saved
    /\ canvas' = save(canvas)
    /\ UNCHANGED <<pc, result, project_id, logo_path, design_summary, design_pricing,
                   design_assets, project_data, elements, images_added, layout_images,
                   idx, attempt, calls, downloads, slept, returned>>

(***************************************************************************)
(* AuroraSolarReport.generate_design_report, one action per step.          *)
(***************************************************************************)
Operations ==
    {"validate_credentials", "get_design_summary", "get_design_pricing",
     "get_design_assets", "get_project", "PDFGenerator", "download_image", "generate"}

Called(op) == [calls EXCEPT ![op] = @ + 1]

Init ==
    /\ pc = "validate"
    /\ result = "running"
    /\ project_id \in {PyNone, "p1"}
    /\ logo_path \in {PyNone, "logo.png"}
    /\ design_summary = EMPTY
    /\ design_pricing = EMPTY
    /\ design_assets = EMPTY
    /\ project_data = NoneDict
    /\ elements = << >>
    /\ images_added = FALSE
    /\ layout_images = << >>
    /\ idx = 0
    /\ attempt = 0
    /\ calls = [op \in Operations |-> 0]
    /\ downloads = << >>
    /\ slept = FALSE
    /\ returned = [validate_credentials |-> "none", generate |-> "none"]
    /\ canvas = NewCanvas

\* faulty variant of ExceptionResult: the exception is raised again to the caller
ExceptionEscapes == "raised"

\* what the except clause of lines 500-502 makes of an exception
ExceptionResult == "False"

\* the run ends in that except clause
Caught == pc' = "done" /\ result' = ExceptionResult

\* faulty variant of CredentialsRejected: the result of the credential check is ignored
CredentialsRejectedNever(valid) == FALSE

\* line 362: if not self.api.validate_credentials()
CredentialsRejected(valid) == ~valid

ValidateCredentials ==
    /\ pc = "validate"
    /\ \E answer \in CredentialAnswers :
         LET valid == validate_credentials(answer) IN
         /\ returned' = [returned EXCEPT !.validate_credentials = IF valid THEN "True" ELSE "False"]
         /\ IF CredentialsRejected(valid)
            THEN pc' = "done" /\ result' = "False"
            ELSE pc' = "summary" /\ result' = result
    /\ calls' = Called("validate_credentials")
    /\ UNCHANGED <<project_id, logo_path, design_summary, design_pricing, design_assets,
                   project_data, elements, images_added, layout_images, idx, attempt,
                   downloads, slept, canvas>>

\* faulty variant of SummaryMissing: an empty design summary is let through
SummaryMissingIgnored(summary) == FALSE

\* line 368: if not design_summary
SummaryMissing(summary) == ~Truthy(summary)

FetchSummary ==
    /\ pc = "summary"
    /\ \E answer \in SummaryAnswers :
         /\ design_summary' = _make_request(answer)
         /\ IF SummaryMissing(design_summary')
            THEN pc' = "done" /\ result' = "False"
            ELSE pc' = "pricing" /\ result' = result
    /\ calls' = Called("get_design_summary")
    /\ UNCHANGED <<project_id, logo_path, design_pricing, design_assets, project_data,
                   elements, images_added, layout_images, idx, attempt, downloads,
                   slept, returned, canvas>>

FetchPricing ==
    /\ pc = "pricing"
    /\ \E answer \in PricingAnswers :
         IF PricingRaises(answer)
         THEN Caught /\ design_pricing' = design_pricing
         ELSE /\ design_pricing' = get_design_pricing(answer)
              /\ pc' = "assets" /\ result' = result
    /\ calls' = Called("get_design_pricing")
    /\ UNCHANGED <<project_id, logo_path, design_summary, design_assets, project_data,
                   elements, images_added, layout_images, idx, attempt, downloads,
                   slept, returned, canvas>>

FetchAssets ==
    /\ pc = "assets"
    /\ \E answer \in AssetsAnswers : design_assets' = _make_request(answer)
    /\ calls' = Called("get_design_assets")
    /\ pc' = "project"
    /\ UNCHANGED <<result, project_id, logo_path, design_summary, design_pricing,
                   project_data, elements, images_added, layout_images, idx, attempt,
                   downloads, slept, returned, canvas>>

\* line 378: if project_id
ProjectRequested(id) == TruthyStr(id)

FetchProject ==
    /\ pc = "project"
    /\ IF ProjectRequested(project_id)
       THEN /\ \E answer \in ProjectAnswers : project_data' = _make_request(answer)
            /\ calls' = Called("get_project")
       ELSE /\ project_data' = NoneDict
            /\ calls' = calls
    /\ pc' = "create"
    /\ UNCHANGED <<result, project_id, logo_path, design_summary, design_pricing,
                   design_assets, elements, images_added, layout_images, idx, attempt,
                   downloads, slept, returned, canvas>>

CreatePdf ==
    /\ pc = "create"
    /\ elements' = << >>
    /\ calls' = Called("PDFGenerator")
    /\ pc' = "logo"
    /\ UNCHANGED <<result, project_id, logo_path, design_summary, design_pricing,
                   design_assets, project_data, images_added, layout_images, idx,
                   attempt, downloads, slept, returned, canvas>>

\* lines 389-391; os.path.exists and the loading of the file are the file system's
AddLogo ==
    /\ pc = "logo"
    /\ \E exists \in BOOLEAN, loads \in BOOLEAN :
         elements' = IF TruthyStr(logo_path) /\ exists
                     THEN add_logo(elements, logo_path, loads)
                     ELSE elements
    /\ pc' = "title"
    /\ UNCHANGED <<result, project_id, logo_path, design_summary, design_pricing,
                   design_assets, project_data, images_added, layout_images, idx,
                   attempt, calls, downloads, slept, returned, canvas>>

AddTitle ==
    /\ pc = "title"
    /\ elements' = add_title(elements, "Spartan EagleEye Report")
    /\ pc' = "overview"
    /\ UNCHANGED <<result, project_id, logo_path, design_summary, design_pricing,
                   design_assets, project_data, images_added, layout_images, idx,
                   attempt, calls, downloads, slept, returned, canvas>>

\* lines 397-401
ProjectSection(els, data) ==
    IF Truthy(data)
    THEN LET overview_data == format_project_overview(data)
             with_header == add_header(els, "Project Overview")
         IN  IF overview_data # << >> THEN add_table(with_header, overview_data)
             ELSE with_header
    ELSE els

AddProjectOverview ==
    /\ pc = "overview"
    /\ elements' = ProjectSection(elements, project_data)
    /\ pc' = "design"
    /\ UNCHANGED <<result, project_id, logo_path, design_summary, design_pricing,
                   design_assets, project_data, images_added, layout_images, idx,
                   attempt, calls, downloads, slept, returned, canvas>>

\* lines 404-423: the header is appended before the mapping can raise
AddDesignDetails ==
    /\ pc = "design"
    /\ LET with_header == add_header(elements, "System Design Details") IN
       IF DesignMappingRaises(design_summary)
       THEN elements' = with_header /\ Caught
       ELSE /\ elements' = add_table(with_header, DesignRows(design_summary))
            /\ pc' = "financial" /\ result' = result
    /\ UNCHANGED <<project_id, logo_path, design_summary, design_pricing, design_assets,
                   project_data, images_added, layout_images, idx, attempt, calls,
                   downloads, slept, returned, canvas>>

\* lines 426-436
FinancialSection(els, pricing, watts) ==
    IF Truthy(pricing)
    THEN add_table(add_header(els, "Financial Overview"), FinancialRows(pricing, watts))
    ELSE els

AddFinancial ==
    /\ pc = "financial"
    /\ IF FinancialRaises(design_pricing, SystemSizeWatts(design_summary))
       THEN elements' = add_header(elements, "Financial Overview") /\ Caught
       ELSE /\ elements' = FinancialSection(elements, design_pricing,
                                            SystemSizeWatts(design_summary))
            /\ pc' = "visualization" /\ result' = result
    /\ UNCHANGED <<project_id, logo_path, design_summary, design_pricing,
                   design_assets, project_data, images_added, layout_images, idx,
                   attempt, calls, downloads, slept, returned, canvas>>

(***************************************************************************)
(* The visualization section: lines 439-490.                               *)
(***************************************************************************)
Unavailable == "System design images are currently unavailable."

\* faulty variant of IsLayoutImage: the filter keeps every asset
IsLayoutImageAny(asset) == TRUE

\* line 448: the filter of the list comprehension
IsLayoutImage(asset) ==
    \/ Get(asset, "type", PyNone) \in {"layout_image"}
    \/ Get(asset, "asset_type", PyNone) = "CAD Screenshot"

LayoutImages(assets) == SelectSeq(assets, IsLayoutImage)

BeginVisualization ==
    /\ pc = "visualization"
    /\ IF TruthyList(design_assets, "assets")
       THEN LET with_header == add_header(elements, "System Design Visualization")
                images == LayoutImages(design_assets.assets)
            IN  /\ images_added' = FALSE
                /\ layout_images' = images
                /\ downloads' = [i \in 1..Len(images) |-> 0]
                /\ IF Len(images) = 0
                   THEN /\ elements' = add_paragraph(with_header, Unavailable)
                        /\ pc' = "generate"
                        /\ idx' = idx
                   ELSE /\ elements' = with_header
                        /\ pc' = "asset"
                        /\ idx' = 1
       ELSE /\ pc' = "generate"
            /\ UNCHANGED <<elements, images_added, layout_images, downloads, idx>>
    /\ UNCHANGED <<result, project_id, logo_path, design_summary, design_pricing,
                   design_assets, project_data, attempt, calls, slept, returned, canvas>>

\* lines 459-461: an asset without a url is skipped
HasUrl(asset) == TruthyStr(Get(asset, "url", PyNone))

\* the head of "for asset in layout_images" down to the start of the retry loop
NextAsset ==
    /\ pc = "asset"
    /\ IF idx > Len(layout_images)
       THEN pc' = "after_images" /\ UNCHANGED <<idx, attempt>>
       ELSE IF ~HasUrl(layout_images[idx])
            THEN pc' = pc /\ idx' = idx + 1 /\ attempt' = attempt
            ELSE pc' = "attempt" /\ idx' = idx /\ attempt' = 0
    /\ UNCHANGED <<result, project_id, logo_path, design_summary, design_pricing,
                   design_assets, project_data, elements, images_added, layout_images,
                   calls, downloads, slept, returned, canvas>>

\* lines 478 and 484: if attempt < max_retries - 1
RetriesLeft(a) == a < max_retries - 1

\* faulty variant of MoreAttempts: one attempt too many
MoreAttemptsOffByOne(a) == a < max_retries

\* for attempt in range(max_retries): whether the loop has a next iteration
MoreAttempts(a) == a + 1 < max_retries

\* lines 470-474: the attempt embedded the image and breaks out of the loop
Embedded(image_data) == image_data # PyNone /\ add_image_ok(image_data)

\* one iteration of the retry loop, lines 465-486; "raise" is an exception
\* raised inside the try block
Attempt ==
    /\ pc = "attempt"
    /\ \E answer \in DownloadAnswers \cup {"raise"} :
         LET url == layout_images[idx].url
             image_data == download_image(answer)
             leave == pc' = "asset" /\ idx' = idx + 1 /\ attempt' = attempt
             again == pc' = pc /\ idx' = idx /\ attempt' = attempt + 1
         IN  IF answer = "raise"
             THEN /\ UNCHANGED <<elements, images_added>>
                  /\ slept' = FALSE
                  /\ IF RetriesLeft(attempt) /\ MoreAttempts(attempt) THEN again ELSE leave
             ELSE IF Embedded(image_data)
                  THEN /\ elements' = add_image(elements, image_data, url)
                       /\ images_added' = TRUE
                       /\ slept' = FALSE
                       /\ leave
                  ELSE /\ UNCHANGED <<elements, images_added>>
                       /\ slept' = RetriesLeft(attempt)
                       /\ IF MoreAttempts(attempt) THEN again ELSE leave
    /\ calls' = Called("download_image")
    /\ downloads' = [downloads EXCEPT ![idx] = @ + 1]
    /\ UNCHANGED <<result, project_id, logo_path, design_summary, design_pricing,
                   design_assets, project_data, layout_images, returned, canvas>>

\* faulty variant of NoImagesNotice: the notice is appended whether or not an image was added
NoImagesNoticeAlways(els, added) == add_paragraph(els, Unavailable)

\* lines 488-490
NoImagesNotice(els, added) == IF ~added THEN add_paragraph(els, Unavailable) ELSE els

AfterImages ==
    /\ pc = "after_images"
    /\ elements' = NoImagesNotice(elements, images_added)
    /\ pc' = "generate"
    /\ UNCHANGED <<result, project_id, logo_path, design_summary, design_pricing,
                   design_assets, project_data, images_added, layout_images, idx,
                   attempt, calls, downloads, slept, returned, canvas>>

\* PDFGenerator.generate: doc.build raising is caught and returns False
generate(builds) == builds

\* lines 493-498
Generate ==
    /\ pc = "generate"
    /\ \E builds \in BOOLEAN :
         /\ returned' = [returned EXCEPT !.generate = IF generate(builds) THEN "True" ELSE "False"]
         /\ result' = IF generate(builds) THEN "True" ELSE "False"
    /\ calls' = Called("generate")
    /\ pc' = "done"
    /\ UNCHANGED <<project_id, logo_path, design_summary, design_pricing, design_assets,
                   project_data, elements, images_added, layout_images, idx, attempt,
                   downloads, slept, canvas>>

Next ==
    \/ ValidateCredentials
    \/ FetchSummary
    \/ FetchPricing
    \/ FetchAssets
    \/ FetchProject
    \/ CreatePdf
    \/ AddLogo
    \/ AddTitle
    \/ AddProjectOverview
    \/ AddDesignDetails
    \/ AddFinancial
    \/ BeginVisualization
    \/ NextAsset
    \/ Attempt
    \/ AfterImages
    \/ Generate

Spec == Init /\ [][Next]_vars

\* a FooterCanvas on its own: pages are drawn and shown, then the canvas is saved
FooterInit == Init /\ project_id = PyNone /\ logo_path = PyNone

FooterNext == Draw \/ ShowPage \/ Save

FooterSpec == FooterInit /\ [][FooterNext]_vars

(***************************************************************************)
(* Observations on the state used by the properties below.                 *)
(***************************************************************************)
\* the element list without its spacers
Content == SelectSeq(elements, LAMBDA b : b.kind # "Spacer")

HasHeader(text) ==
    \E k \in 1..Len(elements) :
        elements[k].kind = "Paragraph" /\ elements[k].style = "ReportHeader"
        /\ elements[k].text = text

\* a table is told by the first cell of its header row
HasTable(first_cell) ==
    \E k \in 1..Len(elements) :
        elements[k].kind = "Table" /\ elements[k].rows[1][1] = first_cell

DesignImages == {k \in 1..Len(elements) :
                    elements[k].kind = "Image" /\ elements[k].style = "design"}

Notices == {k \in 1..Len(elements) :
               elements[k].kind = "Paragraph" /\ elements[k].text = Unavailable}

\* the design images in the element list that came from entry i of layout_images
ImagesOf(i) ==
    IF "url" \in DOMAIN layout_images[i]
    THEN {k \in DesignImages : elements[k].text = layout_images[i].url}
    ELSE {}

FetchOperations ==
    {"get_design_summary", "get_design_pricing", "get_design_assets", "get_project"}

\* the run went through the whole build and reached (or passed) pdf.generate()
BuildComplete == pc = "generate" \/ calls["generate"] = 1

(***************************************************************************)
(* C1: when validate_credentials() returns false, no fetch operation and   *)
(* no image download is invoked, no block is added to a document, and the  *)
(* run ends with the result False.                                         *)
(***************************************************************************)
C1_CredentialFailureShortCircuits ==
    returned.validate_credentials = "False" =>
        /\ \A op \in FetchOperations : calls[op] = 0
        /\ calls["download_image"] = 0
        /\ calls["PDFGenerator"] = 0 /\ calls["generate"] = 0
        /\ elements = << >>
        /\ pc = "done" /\ result = "False"

C1_Witness == returned.validate_credentials = "False" /\ pc = "done"

(***************************************************************************)
(* C2: when get_design_summary returns the empty sentinel the run ends     *)
(* with the result False, no document is built or rendered, and none of    *)
(* the other fetches is made.                                              *)
(***************************************************************************)
C2_SummaryIsMandatory ==
    (calls["get_design_summary"] = 1 /\ DOMAIN design_summary = {}) =>
        /\ pc = "done" /\ result = "False"
        /\ calls["PDFGenerator"] = 0 /\ calls["generate"] = 0
        /\ elements = << >>
        /\ \A op \in FetchOperations \ {"get_design_summary"} : calls[op] = 0

C2_Witness ==
    calls["get_design_summary"] = 1 /\ DOMAIN design_summary = {} /\ pc = "done"

(***************************************************************************)
(* C3: for a project payload without the "project" key,                    *)
(* format_project_overview returns None and neither the "Project Overview" *)
(* header nor the overview table is in the element list.                   *)
(***************************************************************************)
C3_NoProjectKeyNoSection ==
    "project" \notin DOMAIN project_data =>
        /\ format_project_overview(project_data) = << >>
        /\ ~HasHeader("Project Overview")
        /\ ~HasTable("Project Details")

(***************************************************************************)
(* The retry policy for entry i of layout_images, as a condition on every  *)
(* state: at most 3 attempts and at most one image block; nothing happens  *)
(* for an entry before its turn; attempts go on only while no image of the *)
(* entry is embedded; once its turn is over, an entry that had to be       *)
(* attempted was attempted at least once and, if no image was embedded,     *)
(* exactly 3 times.                                                        *)
(***************************************************************************)
RetryPolicy(i, must_attempt) ==
    LET images == Cardinality(ImagesOf(i)) IN
    /\ downloads[i] <= 3
    /\ images <= 1
    /\ (i > idx \/ (i = idx /\ pc = "asset")) => (downloads[i] = 0 /\ images = 0)
    /\ (i = idx /\ pc = "attempt") => (images = 0 /\ downloads[i] = attempt)
    /\ (i < idx /\ must_attempt) =>
          /\ downloads[i] >= 1
          /\ images = 0 => downloads[i] = 3
    /\ (i < idx /\ ~must_attempt) => (downloads[i] = 0 /\ images = 0)

\* images appear in the element list in the order of their assets
ImagesInListOrder ==
    LET images == DesignImages
        asset == [k \in images |->
                    CHOOSE i \in 1..Len(layout_images) :
                        "url" \in DOMAIN layout_images[i]
                        /\ layout_images[i].url = elements[k].text]
    IN  \A a, b \in images : a < b => asset[a] < asset[b]

\* a run that started downloading never ends before pdf.generate()
ImagesNeverAbort == (pc = "done" /\ calls["download_image"] > 0) => calls["generate"] = 1

(***************************************************************************)
(* C4 as stated: every eligible asset is attempted at least once and at    *)
(* most 3 times, in list order; attempts stop at the first embed, which    *)
(* appends one image block; 3 failures append none and the run goes on.    *)
(***************************************************************************)
C4_EveryEligibleAssetAttempted ==
    /\ \A i \in 1..Len(layout_images) : RetryPolicy(i, TRUE)
    /\ ImagesInListOrder
    /\ ImagesNeverAbort

(***************************************************************************)
(* C4 amended: the same policy for every eligible asset that has a         *)
(* non-empty url; an eligible asset without one is skipped with no attempt *)
(* and no image block.                                                     *)
(***************************************************************************)
C4_RetryPolicyForAssetsWithUrl ==
    /\ \A i \in 1..Len(layout_images) :
          RetryPolicy(i, "url" \in DOMAIN layout_images[i] /\ layout_images[i].url # "")
    /\ ImagesInListOrder
    /\ ImagesNeverAbort

\* one asset failed 3 times, a later one was embedded by its third attempt
C4_Witness ==
    /\ pc = "done" /\ calls["generate"] = 1
    /\ \E i, j \in 1..Len(layout_images) :
          /\ i < j
          /\ downloads[i] = 3 /\ ImagesOf(i) = {}
          /\ downloads[j] = 3 /\ Cardinality(ImagesOf(j)) = 1

(***************************************************************************)
(* C5: the "unavailable" paragraph is in the document at most once and     *)
(* never together with a design image; once the visualization section is   *)
(* complete it is there exactly when no image was embedded.                *)
(***************************************************************************)
C5_NoticeExactlyWhenNoImage ==
    /\ Cardinality(Notices) <= 1
    /\ ~(Notices # {} /\ DesignImages # {})
    /\ (BuildComplete /\ HasHeader("System Design Visualization")) =>
          (Cardinality(Notices) = 1 <=> DesignImages = {})

\* one asset exhausted its attempts, another was embedded: no notice
C5_Witness ==
    /\ BuildComplete
    /\ DesignImages # {}
    /\ \E i \in 1..Len(layout_images) : downloads[i] = 3 /\ ImagesOf(i) = {}

(***************************************************************************)
(* C6: downloads are made only for eligible assets; with a non-empty asset *)
(* list that has no eligible asset, download_image is never called and the *)
(* "unavailable" paragraph directly follows the visualization header.      *)
(***************************************************************************)
EligibleAsset(asset) ==
    \/ ("type" \in DOMAIN asset /\ asset.type = "layout_image")
    \/ ("asset_type" \in DOMAIN asset /\ asset.asset_type = "CAD Screenshot")

NoEligibleAsset ==
    /\ TruthyList(design_assets, "assets")
    /\ \A i \in 1..Len(design_assets.assets) : ~EligibleAsset(design_assets.assets[i])

C6_DownloadsOnlyForEligibleAssets ==
    /\ \A i \in 1..Len(layout_images) : downloads[i] > 0 => EligibleAsset(layout_images[i])
    /\ calls["download_image"] > 0 => \E i \in 1..Len(layout_images) : downloads[i] > 0
    /\ NoEligibleAsset => calls["download_image"] = 0
    /\ (NoEligibleAsset /\ BuildComplete) =>
          /\ Len(Content) >= 2
          /\ Content[Len(Content) - 1].text = "System Design Visualization"
          /\ Content[Len(Content)].text = Unavailable

C6_Witness == NoEligibleAsset /\ pc = "done" /\ calls["generate"] = 1

(***************************************************************************)
(* The place of a block in the fixed order of the report.                  *)
(***************************************************************************)
Rank(b) ==
    CASE b.kind = "Image" /\ b.style = "logo" -> 1
      [] b.kind = "Paragraph" /\ b.style = "SpartanTitle" -> 2
      [] b.kind = "Paragraph" /\ b.text = "Project Overview" -> 3
      [] b.kind = "Table" /\ b.rows[1][1] = "Project Details" -> 4
      [] b.kind = "Paragraph" /\ b.text = "System Design Details" -> 5
      [] b.kind = "Table" /\ b.rows[1][1] = "Metric" -> 6
      [] b.kind = "Paragraph" /\ b.text = "Financial Overview" -> 7
      [] b.kind = "Table" /\ b.rows[1][1] = "Item" -> 8
      [] b.kind = "Paragraph" /\ b.text = "System Design Visualization" -> 9
      [] OTHER -> 10

HasRank(r) == \E k \in 1..Len(Content) : Rank(Content[k]) = r

(***************************************************************************)
(* C7: the blocks come in the fixed order logo, title, project-overview    *)
(* header+table, design-metrics header+table, financial header+table,      *)
(* visualization header, images or notice; no section twice; a header is   *)
(* always followed by its table; the logo only with a logo path, the       *)
(* project overview only with project data, the financial section only     *)
(* with pricing; the title and the design-metrics header+table are in      *)
(* every run that constructed the builder and has ended.                   *)
(***************************************************************************)
C7_FixedSectionOrder ==
    LET c == Content IN
    /\ \A k \in 1..(Len(c) - 1) :
          \/ Rank(c[k]) < Rank(c[k + 1])
          \/ (Rank(c[k]) = 10 /\ Rank(c[k + 1]) = 10)
    /\ \A k \in 1..Len(c) :
          Rank(c[k]) \in {3, 5, 7} => (k < Len(c) /\ Rank(c[k + 1]) = Rank(c[k]) + 1)
    /\ \A k \in 1..Len(c) :
          Rank(c[k]) \in {4, 6, 8} => (k > 1 /\ Rank(c[k - 1]) = Rank(c[k]) - 1)
    /\ HasRank(1) => logo_path # PyNone
    /\ (HasRank(3) \/ HasRank(4)) => (project_data # NoneDict /\ DOMAIN project_data # {})
    /\ (HasRank(7) \/ HasRank(8)) => DOMAIN design_pricing # {}
    /\ (pc = "done" /\ calls["PDFGenerator"] = 1) => (HasRank(2) /\ HasRank(5) /\ HasRank(6))

(***************************************************************************)
(* C8: the mapping never fails the run: a run that got as far as building  *)
(* the document has the design-metrics table and ends in pdf.generate(),   *)
(* whatever fields the summary, project and pricing payloads lack.         *)
(***************************************************************************)
C8_MappingNeverFailsTheRun ==
    (pc = "done" /\ calls["PDFGenerator"] = 1) =>
        (HasTable("Metric") /\ calls["generate"] = 1)

(***************************************************************************)
(* C9: with valid credentials, a non-empty well-formed design summary and  *)
(* no failure of pdf.generate(), the run returns True, also when pricing,  *)
(* assets or project data are absent or empty or every image fails; and   *)
(* get_project is called only when a project identifier was supplied.      *)
(***************************************************************************)
\* every bill-of-materials entry names its component type, and an arrays
\* list that is present is not empty
WellFormedSummary(summary) ==
    LET design_info == IF "design" \in DOMAIN summary THEN summary.design ELSE EMPTY
        bom == IF "bill_of_materials" \in DOMAIN design_info
               THEN design_info.bill_of_materials ELSE << >>
    IN  /\ \A i \in 1..Len(bom) : "component_type" \in DOMAIN bom[i]
        /\ "arrays" \in DOMAIN design_info => Len(design_info.arrays) > 0

\* the run ended inside get_design_pricing (an answer that is no JSON object)
PricingAnswerMalformed ==
    pc = "done" /\ calls["get_design_pricing"] = 1 /\ calls["get_design_assets"] = 0

C9_OptionalDataNeverFailsTheRun ==
    /\ project_id = PyNone => calls["get_project"] = 0
    /\ ( /\ pc = "done"
         /\ returned.validate_credentials = "True"
         /\ DOMAIN design_summary # {}
         /\ WellFormedSummary(design_summary)
         /\ ~PricingAnswerMalformed
         /\ returned.generate # "False" ) => result = "True"

\* no pricing, no project data, every download or embed failed: still True
C9_Witness ==
    /\ pc = "done" /\ result = "True"
    /\ DOMAIN design_pricing = {}
    /\ project_data = NoneDict
    /\ calls["download_image"] > 0 /\ DesignImages = {}

(***************************************************************************)
(* C10: no exception escapes generate_design_report: every run goes on     *)
(* until it ends with True or with False, True only when pdf.generate()    *)
(* returned True, and False whenever the run ended any other way (a        *)
(* rejected check, a missing summary, an exception, a failed render).      *)
(***************************************************************************)
C10_AlwaysABooleanOutcome ==
    /\ result \in {"running", "True", "False"}
    /\ pc = "done" <=> result \in {"True", "False"}
    /\ result = "True" => returned.generate = "True"
    /\ (pc = "done" /\ returned.generate # "True") => result = "False"
    /\ pc # "done" => ENABLED Next

\* an exception of the mapping (after the builder was constructed) ended the run
C10_Witness ==
    pc = "done" /\ result = "False" /\ calls["PDFGenerator"] = 1 /\ calls["generate"] = 0

(***************************************************************************)
(* C11: the financial rows never divide by zero: the "Price per Watt"      *)
(* cell is price / (system size in watts) as "$X.XX/W" when the system     *)
(* size is above 0 and "N/A" when it is 0, below 0 or absent; a run with   *)
(* non-empty pricing that got past the design metrics has the financial   *)
(* table and goes on to pdf.generate().                                    *)
(***************************************************************************)
\* system_size_stc of the fetched summary, 0 when the key is absent
SummaryWatts ==
    IF "design" \in DOMAIN design_summary /\ "system_size_stc" \in DOMAIN design_summary.design
    THEN design_summary.design.system_size_stc
    ELSE 0

SummaryPrice ==
    IF "system_price" \in DOMAIN design_pricing THEN design_pricing.system_price ELSE 0

C11_NoDivisionByZero ==
    /\ \A k \in 1..Len(elements) :
          (elements[k].kind = "Table" /\ elements[k].rows[1][1] = "Item") =>
              /\ elements[k].rows[3][1] = "Price per Watt"
              /\ elements[k].rows[3][2] =
                    IF SummaryWatts > 0
                    THEN Money(RoundDiv(SummaryPrice * 100, SummaryWatts)) \o "/W"
                    ELSE "N/A"
    /\ (pc = "done" /\ HasTable("Metric") /\ DOMAIN design_pricing # {}) =>
          (HasTable("Item") /\ calls["generate"] = 1)

\* a finished run with pricing and a system size of 0 read from the summary
C11_Witness ==
    /\ pc = "done" /\ result = "True"
    /\ HasTable("Item")
    /\ "design" \in DOMAIN design_summary
    /\ "system_size_stc" \in DOMAIN design_summary.design
    /\ SummaryWatts = 0

(***************************************************************************)
(* C12: N showPage calls followed by save hand exactly N pages to the      *)
(* document, the k-th of them with the one footer "Page k of N" after the  *)
(* content drawn on it; before save no page is handed over and no footer   *)
(* is drawn anywhere.                                                      *)
(***************************************************************************)
IsPageInfo(op) ==
    \E k, n \in 0..(MaxPages + 1) : op = "Page " \o ToString(k) \o " of " \o ToString(n)

PageInfos(code) == SelectSeq(code, IsPageInfo)

C12_FooterPageNumbers ==
    /\ ~canvas.saved =>
          /\ canvas.doc = << >>
          /\ PageInfos(canvas.code) = << >>
          /\ \A k \in 1..Len(canvas.pages) : PageInfos(canvas.pages[k].code) = << >>
    /\ canvas.saved =>
          /\ Len(canvas.doc) = canvas.shown
          /\ \A k \in 1..Len(canvas.doc) :
                /\ PageInfos(canvas.doc[k]) =
                      << "Page " \o ToString(k) \o " of " \o ToString(canvas.shown) >>
                /\ IsPageInfo(canvas.doc[k][Len(canvas.doc[k])])

\* three pages with content were shown and the canvas was saved
C12_Witness ==
    /\ canvas.saved
    /\ canvas.shown = 3
    /\ \A k \in 1..Len(canvas.doc) : Len(canvas.doc[k]) > 2

====
